---- MODULE Spec2Model ----
(***************************************************************************)
(* Model of the valuation engine (lib/valuation/compute.ts):               *)
(*   validateInputs, computeValuation (with its inner addBridge), median,  *)
(*   generateSensitivityScenarios, and the callers that repeat calls or    *)
(*   feed the generated scenarios back to computeValuation.                *)
(*                                                                         *)
(* JavaScript numbers are modelled as records [k, n, d]:                   *)
(*   k = "fin"   the exact rational n/d (d > 0, reduced),                  *)
(*   k = "nan"   NaN,   k = "inf" +Infinity,   k = "ninf" -Infinity,       *)
(*   k = "undef" the value undefined (an absent optional field / key).     *)
(* Finite arithmetic is rational arithmetic over the finite range          *)
(* [1/MaxFloat, MaxFloat] of magnitudes: a result beyond MaxFloat overflows *)
(* to +-Infinity, a non-zero result below 1/MaxFloat underflows to 0.       *)
(* Rounding of the mantissa is not modelled.                               *)
(***************************************************************************)
EXTENDS Integers, Sequences, FiniteSets, TLC

(* ------------------------------ bounds --------------------------------- *)
MaxShares == 2
MaxDebt == 2
MaxEV == 3
MaxPrice == 2
\* largest finite magnitude of a number
MaxFloat == 1000

(* ------------------------- JavaScript numbers -------------------------- *)
Abs(i) == IF i < 0 THEN -i ELSE i

RECURSIVE GCD(_, _)
GCD(a, b) == IF b = 0 THEN a ELSE GCD(b, a % b)

Frac(n, d) ==
  LET s == IF d < 0 THEN -1 ELSE 1
      g == GCD(Abs(n), Abs(d))
  IN  [k |-> "fin", n |-> (s * n) \div g, d |-> (s * d) \div g]

Num(i) == [k |-> "fin", n |-> i, d |-> 1]
NaN == [k |-> "nan", n |-> 0, d |-> 1]
PosInf == [k |-> "inf", n |-> 0, d |-> 1]
NegInf == [k |-> "ninf", n |-> 0, d |-> 1]
Undefined == [k |-> "undef", n |-> 0, d |-> 1]

\* Number.isFinite(x): false for NaN, +-Infinity and undefined
IsFinite(x) == x.k = "fin"
\* Number.isNaN(x)
IsNaN(x) == x.k = "nan"
\* x > 0 (undefined and NaN compare false)
Gt0(x) == (x.k = "fin" /\ x.n > 0) \/ x.k = "inf"
\* x <= 0 (undefined and NaN compare false)
Le0(x) == (x.k = "fin" /\ x.n <= 0) \/ x.k = "ninf"
\* truthiness of a number-or-undefined: undefined, NaN and 0 are falsy
Truthy(x) == ~(x.k = "undef" \/ x.k = "nan" \/ (x.k = "fin" /\ x.n = 0))
\* sign of a value for the infinite cases of the arithmetic below
Sign(x) == CASE x.k = "inf" -> 1
             [] x.k = "ninf" -> -1
             [] x.k = "fin" /\ x.n > 0 -> 1
             [] x.k = "fin" /\ x.n < 0 -> -1
             [] OTHER -> 0
Signed(s) == IF s > 0 THEN PosInf ELSE IF s < 0 THEN NegInf ELSE NaN

\* the result of an arithmetic operation as a number can hold it: overflow
\* to +-Infinity, underflow to 0
Round(x) ==
  LET above(n, d) == n \div d > MaxFloat \/ (n \div d = MaxFloat /\ n % d > 0)
  IN  IF x.n = 0 THEN x
      ELSE IF above(Abs(x.n), x.d) THEN (IF x.n > 0 THEN PosInf ELSE NegInf)
      ELSE IF above(x.d, Abs(x.n)) THEN Num(0)
      ELSE x

\* a + b  (undefined converts to NaN)
Add(a, b) ==
  CASE a.k \in {"nan", "undef"} \/ b.k \in {"nan", "undef"} -> NaN
    [] a.k = "fin" /\ b.k = "fin" -> Round(Frac(a.n * b.d + b.n * a.d, a.d * b.d))
    [] a.k = "fin" -> b
    [] b.k = "fin" -> a
    [] OTHER -> IF a.k = b.k THEN a ELSE NaN
Neg(a) ==
  CASE a.k = "fin" -> Frac(-a.n, a.d)
    [] a.k = "inf" -> NegInf
    [] a.k = "ninf" -> PosInf
    [] OTHER -> NaN
\* a - b
Sub(a, b) == Add(a, Neg(b))
\* a * b
Mul(a, b) ==
  CASE a.k \in {"nan", "undef"} \/ b.k \in {"nan", "undef"} -> NaN
    [] a.k = "fin" /\ b.k = "fin" -> Round(Frac(a.n * b.n, a.d * b.d))
    [] OTHER -> Signed(Sign(a) * Sign(b))
\* a / b
Div(a, b) ==
  CASE a.k \in {"nan", "undef"} \/ b.k \in {"nan", "undef"} -> NaN
    [] a.k = "fin" /\ b.k = "fin" ->
         IF b.n = 0 THEN Signed(Sign(a)) ELSE Round(Frac(a.n * b.d, a.d * b.n))
    [] a.k = "fin" -> Num(0)
    [] b.k = "fin" -> Signed(Sign(a) * (IF b.n < 0 THEN -1 ELSE 1))
    [] OTHER -> NaN
\* a < b and a <= b (false when either side is NaN or undefined)
Less(a, b) ==
  CASE a.k \in {"nan", "undef"} \/ b.k \in {"nan", "undef"} -> FALSE
    [] a.k = "fin" /\ b.k = "fin" -> a.n * b.d < b.n * a.d
    [] OTHER -> Sign(IF a.k = "fin" THEN Num(0) ELSE a)
                  < Sign(IF b.k = "fin" THEN Num(0) ELSE b)
Leq(a, b) ==
  CASE a.k \in {"nan", "undef"} \/ b.k \in {"nan", "undef"} -> FALSE
    [] a.k = "fin" /\ b.k = "fin" -> a.n * b.d <= b.n * a.d
    [] OTHER -> Sign(IF a.k = "fin" THEN Num(0) ELSE a)
                  <= Sign(IF b.k = "fin" THEN Num(0) ELSE b)
\* x || 0
OrZero(x) == IF Truthy(x) THEN x ELSE Num(0)

(* ------------------------------- types --------------------------------- *)
\* type Method, in the order computeValuation builds the bridges
Methods == <<"EV/Sales", "EV/EBITDA", "P/E">>
MethodSet == {Methods[i] : i \in 1..Len(Methods)}

Ints(lo, hi) == {Num(i) : i \in lo..hi}

\* input domains: every class of value the code distinguishes
SharesVals == {NaN, Num(0)} \cup Ints(1, MaxShares)
DebtVals == {NaN} \cup Ints(-1, MaxDebt)
EVVals == {Undefined, NaN, PosInf, NegInf, Num(0), Num(-1)} \cup Ints(1, MaxEV)
PriceVals == {Undefined, NaN, Num(0), Num(-1)} \cup Ints(1, MaxPrice)

NoWeights == [m \in MethodSet |-> Undefined]
WeightTables ==
  { NoWeights,
    [NoWeights EXCEPT !["EV/Sales"] = Frac(3, 5), !["EV/EBITDA"] = Frac(3, 10),
                      !["P/E"] = Frac(1, 10)],
    [m \in MethodSet |-> Num(0)],
    [NoWeights EXCEPT !["EV/Sales"] = Num(2), !["P/E"] = Num(-1)],
    [NoWeights EXCEPT !["EV/Sales"] = NaN] }

\* interface Inputs (companyName and valuationDate take no part in any
\* computation and are left out); an absent key of evByMethod / weights and
\* an absent pePrice are Undefined
InputsSet ==
  { [sharesOutstanding |-> sh, netDebtYen |-> nd,
     evByMethod |-> [m \in MethodSet |->
        IF m = "EV/Sales" THEN es ELSE IF m = "EV/EBITDA" THEN ee ELSE Undefined],
     pePrice |-> pp, weights |-> w] :
    sh \in SharesVals, nd \in DebtVals, es \in EVVals, ee \in EVVals,
    pp \in PriceVals, w \in WeightTables }

\* formatJPY(amount) with default options: sign, currency symbol and the
\* absolute amount rounded to 0 fraction digits (digit grouping is textual
\* only); non-finite amounts have fixed texts
formatJPY(amount) ==
  IF ~IsFinite(amount)
  THEN [text |-> IF amount.k = "inf" THEN "inf"
                 ELSE IF amount.k = "ninf" THEN "-inf" ELSE "N/A",
        sign |-> "", digits |-> 0]
  ELSE [text |-> "yen",
        sign |-> IF amount.n < 0 THEN "-" ELSE "",
        digits |-> (2 * Abs(amount.n) + amount.d) \div (2 * amount.d)]

\* message texts (the Japanese warning texts are given in English)
ErrShares == "Invalid shares outstanding: "
ErrNetDebt == "Invalid net debt: "
ErrNoMethods == "No valid valuation methods provided"
ErrPEPrice == "Invalid P/E price: "
SkipNoPE == "No valid P/E price provided"
SkipInvalidEV == "Invalid EV: "
SkipNegEquity == "Negative equity value: "
SkipEbitda == "EBITDA <= 0 or invalid EV"
WarnNegEquity == ": equity value became negative"
WarnEbitdaSkip == "EV/EBITDA method skipped: EBITDA value invalid or negative"
WarnReweight == "EV/Sales method weight adjusted"
WarnZeroWeight == "no weights set, using the average value"

Msg(text, arg) == [text |-> text, arg |-> arg]
NoArg == Undefined
NoSkipReason == Msg("", NoArg)

\* const DEFAULT_WEIGHTS
DefaultWeightTable ==
  [m \in MethodSet |-> IF m = "P/E" THEN Frac(1, 5) ELSE Frac(2, 5)]

(* --------------------------- pure functions ---------------------------- *)
RECURSIVE Insert(_, _)
Insert(x, s) ==
  IF s = <<>> THEN <<x>>
  ELSE IF Leq(x, Head(s)) THEN <<x>> \o s
  ELSE <<Head(s)>> \o Insert(x, Tail(s))

\* [...arr].sort((a, b) => a - b)
RECURSIVE SortAsc(_)
SortAsc(arr) == IF arr = <<>> THEN <<>> ELSE Insert(Head(arr), SortAsc(Tail(arr)))

\* median that indexes the array as given, without sorting it
median_Unsorted(arr) ==
  IF Len(arr) = 0 THEN NaN
  ELSE LET mid == Len(arr) \div 2
       IN  IF Len(arr) % 2 # 0
           THEN arr[mid + 1]
           ELSE Div(Add(arr[mid], arr[mid + 1]), Num(2))

\* function median(arr)
median(arr) ==
  IF Len(arr) = 0 THEN NaN
  ELSE LET sorted == SortAsc(arr)
           mid == Len(sorted) \div 2       \* 0-based index
       IN  IF Len(sorted) % 2 # 0
           THEN sorted[mid + 1]
           ELSE Div(Add(sorted[mid], sorted[mid + 1]), Num(2))

\* the rules of validateInputs, one predicate per if-statement
SharesInvalid(inp) ==
  ~IsFinite(inp.sharesOutstanding) \/ Le0(inp.sharesOutstanding)
NetDebtInvalid(inp) == ~IsFinite(inp.netDebtYen)
validEvMethods(inp) ==
  {m \in MethodSet : /\ inp.evByMethod[m] # Undefined
                     /\ IsFinite(inp.evByMethod[m])
                     /\ Gt0(inp.evByMethod[m])}
NoMethods(inp) == Cardinality(validEvMethods(inp)) = 0 /\ ~Truthy(inp.pePrice)
PEInvalid(inp) ==
  inp.pePrice # Undefined /\ (~IsFinite(inp.pePrice) \/ Le0(inp.pePrice))

\* function validateInputs(inputs): the error list; valid iff it is empty
validateInputs(inp) ==
  LET e1 == IF SharesInvalid(inp)
            THEN <<Msg(ErrShares, inp.sharesOutstanding)>> ELSE <<>>
      e2 == IF NetDebtInvalid(inp)
            THEN <<Msg(ErrNetDebt, inp.netDebtYen)>> ELSE <<>>
      e3 == IF NoMethods(inp) THEN <<Msg(ErrNoMethods, NoArg)>> ELSE <<>>
      e4 == IF PEInvalid(inp) THEN <<Msg(ErrPEPrice, inp.pePrice)>> ELSE <<>>
      errs == e1 \o e2 \o e3 \o e4
  IN  [valid |-> Len(errs) = 0, errors |-> errs]

\* interface Bridge
Bridge(method, ev, equity, price, used, skipReason) ==
  [method |-> method, EV |-> ev, Equity |-> equity, PricePerShare |-> price,
   used |-> used, skipReason |-> skipReason]

\* the warning pushed by addBridge for a non-positive equity
NegEquityWarning(method, ev, netDebt) ==
  [text |-> WarnNegEquity, method |-> method,
   args |-> <<formatJPY(ev), formatJPY(netDebt)>>]
PlainWarning(text) == [text |-> text, method |-> "", args |-> <<>>]

\* addBridge whose P/E branch tests ev instead of directPrice
addBridge_PEChecksEv(inp, method, ev, directPrice) ==
  IF method = "P/E"
  THEN IF ev = Undefined \/ ~IsFinite(ev) \/ Le0(ev)
       THEN [bridge |-> Bridge(method, NaN, NaN, NaN, FALSE, Msg(SkipNoPE, NoArg)),
             warnings |-> <<>>]
       ELSE [bridge |-> Bridge(method, NaN, Mul(directPrice, inp.sharesOutstanding),
                               directPrice, TRUE, NoSkipReason),
             warnings |-> <<>>]
  ELSE IF ev = Undefined \/ ~IsFinite(ev) \/ Le0(ev)
       THEN [bridge |-> Bridge(method, NaN, NaN, NaN, FALSE, Msg(SkipInvalidEV, ev)),
             warnings |-> <<>>]
       ELSE LET equity == Sub(ev, inp.netDebtYen)
            IN  IF Le0(equity)
                THEN [bridge |-> Bridge(method, ev, equity, Num(0), FALSE,
                                        Msg(SkipNegEquity, formatJPY(equity))),
                      warnings |-> <<NegEquityWarning(method, ev, inp.netDebtYen)>>]
                ELSE [bridge |-> Bridge(method, ev, equity,
                                        Div(equity, inp.sharesOutstanding),
                                        TRUE, NoSkipReason),
                      warnings |-> <<>>]

\* addBridge that adds net debt to the EV instead of subtracting it
addBridge_AddsNetDebt(inp, method, ev, directPrice) ==
  IF method = "P/E"
  THEN IF directPrice = Undefined \/ ~IsFinite(directPrice) \/ Le0(directPrice)
       THEN [bridge |-> Bridge(method, NaN, NaN, NaN, FALSE, Msg(SkipNoPE, NoArg)),
             warnings |-> <<>>]
       ELSE [bridge |-> Bridge(method, NaN, Mul(directPrice, inp.sharesOutstanding),
                               directPrice, TRUE, NoSkipReason),
             warnings |-> <<>>]
  ELSE IF ev = Undefined \/ ~IsFinite(ev) \/ Le0(ev)
       THEN [bridge |-> Bridge(method, NaN, NaN, NaN, FALSE, Msg(SkipInvalidEV, ev)),
             warnings |-> <<>>]
       ELSE LET equity == Add(ev, inp.netDebtYen)
            IN  IF Le0(equity)
                THEN [bridge |-> Bridge(method, ev, equity, Num(0), FALSE,
                                        Msg(SkipNegEquity, formatJPY(equity))),
                      warnings |-> <<NegEquityWarning(method, ev, inp.netDebtYen)>>]
                ELSE [bridge |-> Bridge(method, ev, equity,
                                        Div(equity, inp.sharesOutstanding),
                                        TRUE, NoSkipReason),
                      warnings |-> <<>>]

\* addBridge that skips only a strictly negative equity (equity < 0)
addBridge_StrictlyNegative(inp, method, ev, directPrice) ==
  IF method = "P/E"
  THEN IF directPrice = Undefined \/ ~IsFinite(directPrice) \/ Le0(directPrice)
       THEN [bridge |-> Bridge(method, NaN, NaN, NaN, FALSE, Msg(SkipNoPE, NoArg)),
             warnings |-> <<>>]
       ELSE [bridge |-> Bridge(method, NaN, Mul(directPrice, inp.sharesOutstanding),
                               directPrice, TRUE, NoSkipReason),
             warnings |-> <<>>]
  ELSE IF ev = Undefined \/ ~IsFinite(ev) \/ Le0(ev)
       THEN [bridge |-> Bridge(method, NaN, NaN, NaN, FALSE, Msg(SkipInvalidEV, ev)),
             warnings |-> <<>>]
       ELSE LET equity == Sub(ev, inp.netDebtYen)
            IN  IF Le0(equity) /\ equity # Num(0)
                THEN [bridge |-> Bridge(method, ev, equity, Num(0), FALSE,
                                        Msg(SkipNegEquity, formatJPY(equity))),
                      warnings |-> <<NegEquityWarning(method, ev, inp.netDebtYen)>>]
                ELSE [bridge |-> Bridge(method, ev, equity,
                                        Div(equity, inp.sharesOutstanding),
                                        TRUE, NoSkipReason),
                      warnings |-> <<>>]

\* addBridge whose P/E branch takes net debt off the equity
addBridge_PENetOfDebt(inp, method, ev, directPrice) ==
  IF method = "P/E"
  THEN IF directPrice = Undefined \/ ~IsFinite(directPrice) \/ Le0(directPrice)
       THEN [bridge |-> Bridge(method, NaN, NaN, NaN, FALSE, Msg(SkipNoPE, NoArg)),
             warnings |-> <<>>]
       ELSE LET equity == Sub(Mul(directPrice, inp.sharesOutstanding), inp.netDebtYen)
            IN  [bridge |-> Bridge(method, NaN, equity,
                                   Div(equity, inp.sharesOutstanding), TRUE, NoSkipReason),
                 warnings |-> <<>>]
  ELSE IF ev = Undefined \/ ~IsFinite(ev) \/ Le0(ev)
       THEN [bridge |-> Bridge(method, NaN, NaN, NaN, FALSE, Msg(SkipInvalidEV, ev)),
             warnings |-> <<>>]
       ELSE LET equity == Sub(ev, inp.netDebtYen)
            IN  IF Le0(equity)
                THEN [bridge |-> Bridge(method, ev, equity, Num(0), FALSE,
                                        Msg(SkipNegEquity, formatJPY(equity))),
                      warnings |-> <<NegEquityWarning(method, ev, inp.netDebtYen)>>]
                ELSE [bridge |-> Bridge(method, ev, equity,
                                        Div(equity, inp.sharesOutstanding),
                                        TRUE, NoSkipReason),
                      warnings |-> <<>>]

\* addBridge that also pushes a warning when it skips an invalid EV
addBridge_WarnsOnInvalidEV(inp, method, ev, directPrice) ==
  IF method = "P/E"
  THEN IF directPrice = Undefined \/ ~IsFinite(directPrice) \/ Le0(directPrice)
       THEN [bridge |-> Bridge(method, NaN, NaN, NaN, FALSE, Msg(SkipNoPE, NoArg)),
             warnings |-> <<>>]
       ELSE [bridge |-> Bridge(method, NaN, Mul(directPrice, inp.sharesOutstanding),
                               directPrice, TRUE, NoSkipReason),
             warnings |-> <<>>]
  ELSE IF ev = Undefined \/ ~IsFinite(ev) \/ Le0(ev)
       THEN [bridge |-> Bridge(method, NaN, NaN, NaN, FALSE, Msg(SkipInvalidEV, ev)),
             warnings |-> <<[text |-> SkipInvalidEV, method |-> method, args |-> <<>>]>>]
       ELSE LET equity == Sub(ev, inp.netDebtYen)
            IN  IF Le0(equity)
                THEN [bridge |-> Bridge(method, ev, equity, Num(0), FALSE,
                                        Msg(SkipNegEquity, formatJPY(equity))),
                      warnings |-> <<NegEquityWarning(method, ev, inp.netDebtYen)>>]
                ELSE [bridge |-> Bridge(method, ev, equity,
                                        Div(equity, inp.sharesOutstanding),
                                        TRUE, NoSkipReason),
                      warnings |-> <<>>]

\* const addBridge = (method, ev?, directPrice?) => void, as the pair of
\* the bridge it pushes and the warnings it pushes
addBridge(inp, method, ev, directPrice) ==
  IF method = "P/E"
  THEN IF directPrice = Undefined \/ ~IsFinite(directPrice) \/ Le0(directPrice)
       THEN [bridge |-> Bridge(method, NaN, NaN, NaN, FALSE, Msg(SkipNoPE, NoArg)),
             warnings |-> <<>>]
       ELSE [bridge |-> Bridge(method, NaN, Mul(directPrice, inp.sharesOutstanding),
                               directPrice, TRUE, NoSkipReason),
             warnings |-> <<>>]
  ELSE IF ev = Undefined \/ ~IsFinite(ev) \/ Le0(ev)
       THEN [bridge |-> Bridge(method, NaN, NaN, NaN, FALSE, Msg(SkipInvalidEV, ev)),
             warnings |-> <<>>]
       ELSE LET equity == Sub(ev, inp.netDebtYen)
            IN  IF Le0(equity)
                THEN [bridge |-> Bridge(method, ev, equity, Num(0), FALSE,
                                        Msg(SkipNegEquity, formatJPY(equity))),
                      warnings |-> <<NegEquityWarning(method, ev, inp.netDebtYen)>>]
                ELSE [bridge |-> Bridge(method, ev, equity,
                                        Div(equity, inp.sharesOutstanding),
                                        TRUE, NoSkipReason),
                      warnings |-> <<>>]

\* const weights = { ...DEFAULT_WEIGHTS, ...inputs.weights }
mergeWeights(defaults, w) ==
  [m \in MethodSet |-> IF w[m] = Undefined THEN defaults[m] ELSE w[m]]

\* evEbitda !== undefined && evEbitda > 0
EbitdaTakesGenericPath(evEbitda) == evEbitda # Undefined /\ Gt0(evEbitda)

\* bridges.find(b => b.method === 'EV/Sales')?.used
evSalesUsed(bs) ==
  \E i \in 1..Len(bs) :
    /\ bs[i].method = "EV/Sales" /\ bs[i].used
    /\ \A j \in 1..(i - 1) : bs[j].method # "EV/Sales"

\* weights['EV/Sales'] += weights['EV/EBITDA']; weights['EV/EBITDA'] = 0
reweight(w) ==
  [w EXCEPT !["EV/Sales"] = Add(w["EV/Sales"], w["EV/EBITDA"]),
            !["EV/EBITDA"] = Num(0)]

\* bridges.filter(b => b.used)
RECURSIVE validBridges(_)
validBridges(bs) ==
  IF bs = <<>> THEN <<>>
  ELSE IF Head(bs).used THEN <<Head(bs)>> \o validBridges(Tail(bs))
  ELSE validBridges(Tail(bs))

\* method names collected in reverse bridge order
methodsOf_Reversed(vb) == [i \in 1..Len(vb) |-> vb[Len(vb) + 1 - i].method]

pricesOf(vb) == [i \in 1..Len(vb) |-> vb[i].PricePerShare]
methodsOf(vb) == [i \in 1..Len(vb) |-> vb[i].method]

\* arr.reduce((sum, x) => sum + x, 0)
RECURSIVE SumSeq(_)
SumSeq(arr) ==
  IF arr = <<>> THEN Num(0)
  ELSE Add(SumSeq(SubSeq(arr, 1, Len(arr) - 1)), arr[Len(arr)])

\* Math.min(...prices), Math.max(...prices) on a non-empty list
MinOf(arr) == CHOOSE x \in {arr[i] : i \in 1..Len(arr)} :
                \A j \in 1..Len(arr) : Leq(x, arr[j])
MaxOf(arr) == CHOOSE x \in {arr[i] : i \in 1..Len(arr)} :
                \A j \in 1..Len(arr) : Leq(arr[j], x)

\* mean that divides by the number of methods instead of prices.length
avgOf_DividesByMethodCount(prices) ==
  IF Len(prices) > 0 THEN Div(SumSeq(prices), Num(Len(Methods))) ELSE NaN

\* prices.reduce(...) / prices.length, or NaN
avgOf(prices) ==
  IF Len(prices) > 0 THEN Div(SumSeq(prices), Num(Len(prices))) ELSE NaN

\* validBridges.reduce((sum, bridge) => sum + (weights[bridge.method] || 0), 0)
totalWeight(vb, w) == SumSeq([i \in 1..Len(vb) |-> OrZero(w[vb[i].method])])

\* weighted mean normalised by the weights of all methods, used or not
weightedOf_AllWeights(vb, w) ==
  IF Len(vb) > 0
  THEN LET total == SumSeq([i \in 1..Len(Methods) |-> OrZero(w[Methods[i]])])
       IN  IF Gt0(total)
           THEN [value |-> SumSeq([i \in 1..Len(vb) |->
                             Mul(vb[i].PricePerShare,
                                 Div(OrZero(w[vb[i].method]), total))]),
                 warnings |-> <<>>]
           ELSE [value |-> avgOf(pricesOf(vb)),
                 warnings |-> <<PlainWarning(WarnZeroWeight)>>]
  ELSE [value |-> NaN, warnings |-> <<>>]

\* weighted mean without the zero-total branch: stays NaN, pushes nothing
weightedOf_NoFallback(vb, w) ==
  IF Len(vb) > 0
  THEN LET total == totalWeight(vb, w)
       IN  IF Gt0(total)
           THEN [value |-> SumSeq([i \in 1..Len(vb) |->
                             Mul(vb[i].PricePerShare,
                                 Div(OrZero(w[vb[i].method]), total))]),
                 warnings |-> <<>>]
           ELSE [value |-> NaN, warnings |-> <<>>]
  ELSE [value |-> NaN, warnings |-> <<>>]

\* the weighted mean and the warnings its computation pushes
weightedOf(vb, w) ==
  IF Len(vb) > 0
  THEN LET total == totalWeight(vb, w)
       IN  IF Gt0(total)
           THEN [value |-> SumSeq([i \in 1..Len(vb) |->
                             Mul(vb[i].PricePerShare,
                                 Div(OrZero(w[vb[i].method]), total))]),
                 warnings |-> <<>>]
           ELSE [value |-> avgOf(pricesOf(vb)),
                 warnings |-> <<PlainWarning(WarnZeroWeight)>>]
  ELSE [value |-> NaN, warnings |-> <<>>]

\* interface Summary, as computeValuation fills it from the bridges
summaryOf(bs, w) ==
  LET vb == validBridges(bs)
      prices == pricesOf(vb)
  IN  [avg |-> avgOf(prices),
       median |-> IF Len(prices) > 0 THEN median(prices) ELSE NaN,
       weighted |-> weightedOf(vb, w).value,
       range |-> IF Len(prices) > 0 THEN <<MinOf(prices), MaxOf(prices)>>
                 ELSE <<NaN, NaN>>,
       validMethodCount |-> Len(vb),
       usedMethods |-> methodsOf(vb)]

\* the summary of the early return on a validation error
NaNSummary ==
  [avg |-> NaN, median |-> NaN, weighted |-> NaN, range |-> <<NaN, NaN>>,
   validMethodCount |-> 0, usedMethods |-> <<>>]

\* success computed from bridges.length instead of validBridges.length
successOf_AnyBridge(bs) == Len(bs) > 0

\* success: validBridges.length > 0
successOf(bs) == Len(validBridges(bs)) > 0

(* ---------------------------- state machine ---------------------------- *)
VARIABLES
  pc,               \* position inside computeValuation, "idle" between calls
  inputs,           \* the Inputs argument of the current call
  weights,          \* the local merged weight table
  bridges,          \* the local bridges array
  warnings,         \* the local warnings array
  errors,           \* result.errors
  summary,          \* result.summary
  success,          \* result.success
  DEFAULT_WEIGHTS,  \* the module-level default weight table
  calls,            \* number of computeValuation calls a repeating caller made
  first,            \* the Inputs and the result of that caller's first call
  scenarios,        \* the list returned by generateSensitivityScenarios
  scenArgs          \* the arguments of that generateSensitivityScenarios call

vars == <<pc, inputs, weights, bridges, warnings, errors, summary, success,
          DEFAULT_WEIGHTS, calls, first, scenarios, scenArgs>>

\* what the callers of the two entry points hold
caller == <<calls, first, scenarios, scenArgs>>

NoInputs ==
  [sharesOutstanding |-> Undefined, netDebtYen |-> Undefined,
   evByMethod |-> [m \in MethodSet |-> Undefined],
   pePrice |-> Undefined, weights |-> NoWeights]

\* interface ValuationResult
ValuationResult(bs, sm, inp, ws, es, ok) ==
  [bridges |-> bs, summary |-> sm, inputs |-> inp, warnings |-> ws,
   errors |-> es, success |-> ok]
NoResult == ValuationResult(<<>>, NaNSummary, NoInputs, <<>>, <<>>, FALSE)
NoFirst == [inputs |-> NoInputs, result |-> NoResult]
NoScenArgs ==
  [baseInputs |-> NoInputs, netDebtVariation |-> Undefined,
   multipleVariation |-> Undefined]

Init ==
  /\ pc = "idle"
  /\ inputs = NoInputs
  /\ weights = DefaultWeightTable
  /\ bridges = <<>>
  /\ warnings = <<>>
  /\ errors = <<>>
  /\ summary = NaNSummary
  /\ success = FALSE
  /\ DEFAULT_WEIGHTS = DefaultWeightTable
  /\ calls = 0
  /\ first = NoFirst
  /\ scenarios = <<>>
  /\ scenArgs = NoScenArgs

\* computeValuation entry that validates but does not return early
Validate_NoEarlyReturn(inp) ==
  /\ inputs' = inp
  /\ warnings' = <<>>
  /\ bridges' = <<>>
  /\ pc' = "sales"
  /\ weights' = mergeWeights(DEFAULT_WEIGHTS, inp.weights)
  /\ UNCHANGED <<summary, errors, success>>
  /\ UNCHANGED DEFAULT_WEIGHTS

\* computeValuation(inputs): entry, validation, early return or weight merge
Validate(inp) ==
  /\ inputs' = inp
  /\ warnings' = <<>>
  /\ bridges' = <<>>
  /\ LET validation == validateInputs(inp)
     IN  IF ~validation.valid
         THEN /\ pc' = "done"
              /\ summary' = NaNSummary
              /\ errors' = validation.errors
              /\ success' = FALSE
              /\ UNCHANGED weights
         ELSE /\ pc' = "sales"
              /\ weights' = mergeWeights(DEFAULT_WEIGHTS, inp.weights)
              /\ UNCHANGED <<summary, errors, success>>
  /\ UNCHANGED DEFAULT_WEIGHTS

\* addBridge('EV/Sales', inputs.evByMethod['EV/Sales'])
AddBridgeSales ==
  /\ pc = "sales"
  /\ LET r == addBridge(inputs, "EV/Sales", inputs.evByMethod["EV/Sales"], Undefined)
     IN  /\ bridges' = Append(bridges, r.bridge)
         /\ warnings' = warnings \o r.warnings
  /\ pc' = "ebitda"
  /\ UNCHANGED <<inputs, weights, errors, summary, success, DEFAULT_WEIGHTS>>
  /\ UNCHANGED caller

\* EV/EBITDA handling that pushes no bridge for a skipped EV/EBITDA
AddBridgeEbitda_NoPlaceholder ==
  /\ pc = "ebitda"
  /\ LET evEbitda == inputs.evByMethod["EV/EBITDA"]
     IN  IF EbitdaTakesGenericPath(evEbitda)
         THEN LET r == addBridge(inputs, "EV/EBITDA", evEbitda, Undefined)
              IN  /\ bridges' = Append(bridges, r.bridge)
                  /\ warnings' = warnings \o r.warnings
                  /\ UNCHANGED weights
         ELSE /\ UNCHANGED bridges
              /\ IF evEbitda # Undefined
                 THEN IF evSalesUsed(bridges')
                      THEN /\ weights' = reweight(weights)
                           /\ warnings' = warnings \o
                                <<PlainWarning(WarnEbitdaSkip), PlainWarning(WarnReweight)>>
                      ELSE /\ warnings' = Append(warnings, PlainWarning(WarnEbitdaSkip))
                           /\ UNCHANGED weights
                 ELSE UNCHANGED <<warnings, weights>>
  /\ pc' = "pe"
  /\ UNCHANGED <<inputs, errors, summary, success, DEFAULT_WEIGHTS>>
  /\ UNCHANGED caller

\* EV/EBITDA handling whose weight table is the module-level table itself,
\* so the reweighting writes through to DEFAULT_WEIGHTS
AddBridgeEbitda_ReweightsDefaults ==
  /\ pc = "ebitda"
  /\ LET evEbitda == inputs.evByMethod["EV/EBITDA"]
     IN  IF EbitdaTakesGenericPath(evEbitda)
         THEN LET r == addBridge(inputs, "EV/EBITDA", evEbitda, Undefined)
              IN  /\ bridges' = Append(bridges, r.bridge)
                  /\ warnings' = warnings \o r.warnings
                  /\ UNCHANGED <<weights, DEFAULT_WEIGHTS>>
         ELSE /\ bridges' = Append(bridges,
                   Bridge("EV/EBITDA", NaN, NaN, NaN, FALSE, Msg(SkipEbitda, NoArg)))
              /\ IF evEbitda # Undefined
                 THEN IF evSalesUsed(bridges')
                      THEN /\ weights' = reweight(weights)
                           /\ DEFAULT_WEIGHTS' = reweight(weights)
                           /\ warnings' = warnings \o
                                <<PlainWarning(WarnEbitdaSkip), PlainWarning(WarnReweight)>>
                      ELSE /\ warnings' = Append(warnings, PlainWarning(WarnEbitdaSkip))
                           /\ UNCHANGED <<weights, DEFAULT_WEIGHTS>>
                 ELSE UNCHANGED <<warnings, weights, DEFAULT_WEIGHTS>>
  /\ pc' = "pe"
  /\ UNCHANGED <<inputs, errors, summary, success>>
  /\ UNCHANGED caller

\* EV/EBITDA handling without the evEbitda !== undefined test: an absent
\* value is treated like an explicitly invalid one
AddBridgeEbitda_WarnsWhenAbsent ==
  /\ pc = "ebitda"
  /\ LET evEbitda == inputs.evByMethod["EV/EBITDA"]
     IN  IF EbitdaTakesGenericPath(evEbitda)
         THEN LET r == addBridge(inputs, "EV/EBITDA", evEbitda, Undefined)
              IN  /\ bridges' = Append(bridges, r.bridge)
                  /\ warnings' = warnings \o r.warnings
                  /\ UNCHANGED weights
         ELSE /\ bridges' = Append(bridges,
                   Bridge("EV/EBITDA", NaN, NaN, NaN, FALSE, Msg(SkipEbitda, NoArg)))
              /\ IF evSalesUsed(bridges')
                 THEN /\ weights' = reweight(weights)
                      /\ warnings' = warnings \o
                           <<PlainWarning(WarnEbitdaSkip), PlainWarning(WarnReweight)>>
                 ELSE /\ warnings' = Append(warnings, PlainWarning(WarnEbitdaSkip))
                      /\ UNCHANGED weights
  /\ pc' = "pe"
  /\ UNCHANGED <<inputs, errors, summary, success, DEFAULT_WEIGHTS>>
  /\ UNCHANGED caller

\* EV/EBITDA handling that moves the weight to EV/Sales whenever the
\* EV/EBITDA bridge ends up unused, non-positive equity included
AddBridgeEbitda_ReweightsOnAnySkip ==
  /\ pc = "ebitda"
  /\ LET evEbitda == inputs.evByMethod["EV/EBITDA"]
     IN  IF EbitdaTakesGenericPath(evEbitda)
         THEN LET r == addBridge(inputs, "EV/EBITDA", evEbitda, Undefined)
              IN  /\ bridges' = Append(bridges, r.bridge)
                  /\ IF ~r.bridge.used /\ evSalesUsed(bridges)
                     THEN /\ weights' = reweight(weights)
                          /\ warnings' = warnings \o r.warnings
                                           \o <<PlainWarning(WarnReweight)>>
                     ELSE /\ warnings' = warnings \o r.warnings
                          /\ UNCHANGED weights
         ELSE /\ bridges' = Append(bridges,
                   Bridge("EV/EBITDA", NaN, NaN, NaN, FALSE, Msg(SkipEbitda, NoArg)))
              /\ IF evEbitda # Undefined
                 THEN IF evSalesUsed(bridges')
                      THEN /\ weights' = reweight(weights)
                           /\ warnings' = warnings \o
                                <<PlainWarning(WarnEbitdaSkip), PlainWarning(WarnReweight)>>
                      ELSE /\ warnings' = Append(warnings, PlainWarning(WarnEbitdaSkip))
                           /\ UNCHANGED weights
                 ELSE UNCHANGED <<warnings, weights>>
  /\ pc' = "pe"
  /\ UNCHANGED <<inputs, errors, summary, success, DEFAULT_WEIGHTS>>
  /\ UNCHANGED caller

\* the special handling of EV/EBITDA
AddBridgeEbitda ==
  /\ pc = "ebitda"
  /\ LET evEbitda == inputs.evByMethod["EV/EBITDA"]
     IN  IF EbitdaTakesGenericPath(evEbitda)
         THEN LET r == addBridge(inputs, "EV/EBITDA", evEbitda, Undefined)
              IN  /\ bridges' = Append(bridges, r.bridge)
                  /\ warnings' = warnings \o r.warnings
                  /\ UNCHANGED weights
         ELSE /\ bridges' = Append(bridges,
                   Bridge("EV/EBITDA", NaN, NaN, NaN, FALSE, Msg(SkipEbitda, NoArg)))
              /\ IF evEbitda # Undefined
                 THEN IF evSalesUsed(bridges')
                      THEN /\ weights' = reweight(weights)
                           /\ warnings' = warnings \o
                                <<PlainWarning(WarnEbitdaSkip), PlainWarning(WarnReweight)>>
                      ELSE /\ warnings' = Append(warnings, PlainWarning(WarnEbitdaSkip))
                           /\ UNCHANGED weights
                 ELSE UNCHANGED <<warnings, weights>>
  /\ pc' = "pe"
  /\ UNCHANGED <<inputs, errors, summary, success, DEFAULT_WEIGHTS>>
  /\ UNCHANGED caller

\* addBridge('P/E', undefined, inputs.pePrice)
AddBridgePE ==
  /\ pc = "pe"
  /\ LET r == addBridge(inputs, "P/E", Undefined, inputs.pePrice)
     IN  /\ bridges' = Append(bridges, r.bridge)
         /\ warnings' = warnings \o r.warnings
  /\ pc' = "summary"
  /\ UNCHANGED <<inputs, weights, errors, summary, success, DEFAULT_WEIGHTS>>
  /\ UNCHANGED caller

\* the summary step putting the fallback warning in front of the log
Summarize_WarnsFirst ==
  /\ pc = "summary"
  /\ summary' = summaryOf(bridges, weights)
  /\ warnings' = weightedOf(validBridges(bridges), weights).warnings \o warnings
  /\ errors' = <<>>
  /\ success' = successOf(bridges)
  /\ pc' = "done"
  /\ UNCHANGED <<inputs, weights, bridges, DEFAULT_WEIGHTS>>
  /\ UNCHANGED caller

\* the summary statistics and the returned record
Summarize ==
  /\ pc = "summary"
  /\ summary' = summaryOf(bridges, weights)
  /\ warnings' = warnings \o weightedOf(validBridges(bridges), weights).warnings
  /\ errors' = <<>>
  /\ success' = successOf(bridges)
  /\ pc' = "done"
  /\ UNCHANGED <<inputs, weights, bridges, DEFAULT_WEIGHTS>>
  /\ UNCHANGED caller

\* the return statement: the result goes to the caller and the locals of
\* the call are gone
ReturnResult ==
  /\ pc = "done"
  /\ pc' = "idle"
  /\ inputs' = NoInputs
  /\ weights' = DefaultWeightTable
  /\ bridges' = <<>>
  /\ warnings' = <<>>
  /\ errors' = <<>>
  /\ summary' = NaNSummary
  /\ success' = FALSE
  /\ UNCHANGED DEFAULT_WEIGHTS

\* computeValuation returns to a caller that keeps nothing
Return ==
  /\ ReturnResult
  /\ UNCHANGED caller

\* a caller invokes computeValuation with some Inputs record
Call ==
  /\ pc = "idle"
  /\ \E inp \in InputsSet : Validate(inp)
  /\ UNCHANGED caller

Next ==
  \/ Call
  \/ AddBridgeSales
  \/ AddBridgeEbitda
  \/ AddBridgePE
  \/ Summarize
  \/ Return

Spec == Init /\ [][Next]_vars

(* ------------------- a caller that repeats its first call ------------- *)
\* number of calls the repeating caller makes
MaxCalls == 3

\* the Inputs of the repeated call
RepeatInputsSet ==
  { [sharesOutstanding |-> sh, netDebtYen |-> Num(0),
     evByMethod |-> [m \in MethodSet |->
        IF m = "EV/Sales" THEN es ELSE IF m = "EV/EBITDA" THEN ee ELSE Undefined],
     pePrice |-> pp, weights |-> w] :
    sh \in {Num(0), Num(MaxShares)}, es \in EVVals, ee \in EVVals,
    pp \in {Undefined, Num(MaxPrice)}, w \in WeightTables }

\* Inputs of the calls in between: EV/EBITDA explicitly invalid with EV/Sales
\* used, so each of them reweights its weight table
ReweightingInputsSet ==
  { [sharesOutstanding |-> Num(1), netDebtYen |-> Num(0),
     evByMethod |-> [m \in MethodSet |->
        IF m = "EV/Sales" THEN Num(MaxEV)
        ELSE IF m = "EV/EBITDA" THEN Num(-1) ELSE Undefined],
     pePrice |-> Num(1), weights |-> w] :
    w \in {NoWeights,
           [NoWeights EXCEPT !["EV/Sales"] = Frac(3, 5), !["EV/EBITDA"] = Frac(3, 10),
                             !["P/E"] = Frac(1, 10)]} }

\* the caller's calls: the first with any Inputs, then alternately a
\* reweighting call and the first call's Inputs again
CallAgain ==
  /\ pc = "idle"
  /\ calls < MaxCalls
  /\ \E inp \in (IF calls = 0 THEN RepeatInputsSet
                 ELSE IF calls % 2 = 1 THEN ReweightingInputsSet
                 ELSE {first.inputs}) :
       /\ Validate(inp)
       /\ first' = IF calls = 0 THEN [inputs |-> inp, result |-> NoResult] ELSE first
  /\ calls' = calls + 1
  /\ UNCHANGED <<scenarios, scenArgs>>

\* computeValuation returns to the repeating caller, which keeps the result
\* of its first call
ReturnToCaller ==
  /\ ReturnResult
  /\ first' = IF calls = 1
              THEN [first EXCEPT !.result =
                      ValuationResult(bridges, summary, inputs, warnings, errors, success)]
              ELSE first
  /\ UNCHANGED <<calls, scenarios, scenArgs>>

NextRepeat ==
  \/ CallAgain
  \/ AddBridgeSales
  \/ AddBridgeEbitda
  \/ AddBridgePE
  \/ Summarize
  \/ ReturnToCaller

SpecRepeat == Init /\ [][NextRepeat]_vars

(* ------- a caller comparing an absent with a supplied EV/EBITDA -------- *)
\* Inputs without an EV/EBITDA entry
AbsentEbitdaInputsSet ==
  { [sharesOutstanding |-> sh, netDebtYen |-> nd,
     evByMethod |-> [m \in MethodSet |-> IF m = "EV/Sales" THEN es ELSE Undefined],
     pePrice |-> pp, weights |-> w] :
    sh \in {Num(0), Num(MaxShares)}, nd \in {Num(0), Num(MaxDebt)},
    es \in EVVals, pp \in PriceVals, w \in WeightTables }

\* the first call: computeValuation on Inputs without an EV/EBITDA entry
CallAbsent ==
  /\ pc = "idle"
  /\ calls = 0
  /\ \E inp \in AbsentEbitdaInputsSet :
       /\ Validate(inp)
       /\ first' = [inputs |-> inp, result |-> NoResult]
  /\ calls' = calls + 1
  /\ UNCHANGED <<scenarios, scenArgs>>

\* the second call: the same Inputs with an EV/EBITDA entry supplied
CallSupplied ==
  /\ pc = "idle"
  /\ calls = 1
  /\ \E ev \in EVVals \ {Undefined} :
       Validate([first.inputs EXCEPT !.evByMethod["EV/EBITDA"] = ev])
  /\ calls' = calls + 1
  /\ UNCHANGED <<first, scenarios, scenArgs>>

NextAbsent ==
  \/ CallAbsent
  \/ CallSupplied
  \/ AddBridgeSales
  \/ AddBridgeEbitda
  \/ AddBridgePE
  \/ Summarize
  \/ ReturnToCaller

SpecAbsent == Init /\ [][NextAbsent]_vars

(* --------------- calls with numbers of extreme magnitude --------------- *)
\* Inputs whose numbers lie at the ends of the finite range
ExtremeInputsSet ==
  { [sharesOutstanding |-> sh, netDebtYen |-> nd,
     evByMethod |-> [m \in MethodSet |->
        IF m = "EV/Sales" THEN es ELSE IF m = "EV/EBITDA" THEN ee ELSE Undefined],
     pePrice |-> pp, weights |-> w] :
    sh \in {Frac(1, MaxFloat), Num(1), Num(MaxFloat)},
    nd \in {Num(-MaxFloat), Num(0), Num(1)},
    es \in {Undefined, Frac(1, 2), Num(MaxEV), Num(MaxFloat)},
    ee \in {Undefined, Num(-1), Frac(1, 2), Num(MaxFloat)},
    pp \in {Undefined, Num(MaxPrice)},
    w \in {NoWeights, [m \in MethodSet |-> Num(0)]} }

\* a caller invokes computeValuation with Inputs of extreme magnitude
CallExtreme ==
  /\ pc = "idle"
  /\ \E inp \in ExtremeInputsSet : Validate(inp)
  /\ UNCHANGED caller

NextExtreme ==
  \/ CallExtreme
  \/ AddBridgeSales
  \/ AddBridgeEbitda
  \/ AddBridgePE
  \/ Summarize
  \/ Return

SpecExtreme == Init /\ [][NextExtreme]_vars

(* --------------------- generateSensitivityScenarios -------------------- *)
\* x.toFixed(0): sign and the absolute value rounded to the nearest integer,
\* a tie going to the larger one; non-finite values have fixed texts
toFixed0(x) ==
  IF ~IsFinite(x)
  THEN [text |-> IF x.k = "inf" THEN "Infinity"
                 ELSE IF x.k = "ninf" THEN "-Infinity" ELSE "NaN",
        sign |-> "", digits |-> 0]
  ELSE [text |-> "digits",
        sign |-> IF x.n < 0 THEN "-" ELSE "",
        digits |-> (2 * Abs(x.n) + x.d) \div (2 * x.d)]

NoPercent == [text |-> "", sign |-> "", digits |-> 0]

\* the scenario name `${kind} ${sign}${(variation * 100).toFixed(0)}%`
\* ("Net debt" stands for the Japanese label of the net debt scenarios)
ScenarioName(kind, sign, variation) ==
  [kind |-> kind, sign |-> sign, percent |-> toFixed0(Mul(variation, Num(100)))]
BaseCaseName == [kind |-> "Base Case", sign |-> "", percent |-> NoPercent]

Scenario(name, inp) == [scenario |-> name, inputs |-> inp]

\* default value of netDebtVariation and multipleVariation
DefaultVariation == Frac(1, 10)
OrDefault(arg) == IF arg = Undefined THEN DefaultVariation ELSE arg

\* net debt scenarios built without the spread of baseInputs: their Inputs
\* hold the net debt only
netDebtScenarios_NoSpread(baseInputs, netDebtVariation) ==
  LET netDebtBase == baseInputs.netDebtYen
  IN  << Scenario(ScenarioName("Net debt", "+", netDebtVariation),
                  [NoInputs EXCEPT !.netDebtYen =
                     Mul(netDebtBase, Add(Num(1), netDebtVariation))]),
         Scenario(ScenarioName("Net debt", "-", netDebtVariation),
                  [NoInputs EXCEPT !.netDebtYen =
                     Mul(netDebtBase, Sub(Num(1), netDebtVariation))]) >>

\* the two net debt scenarios
netDebtScenarios(baseInputs, netDebtVariation) ==
  LET netDebtBase == baseInputs.netDebtYen
  IN  << Scenario(ScenarioName("Net debt", "+", netDebtVariation),
                  [baseInputs EXCEPT !.netDebtYen =
                     Mul(netDebtBase, Add(Num(1), netDebtVariation))]),
         Scenario(ScenarioName("Net debt", "-", netDebtVariation),
                  [baseInputs EXCEPT !.netDebtYen =
                     Mul(netDebtBase, Sub(Num(1), netDebtVariation))]) >>

\* the scenarios of one EV method with the - scenario pushed before the +
\* scenario
evScenarios_MinusFirst(baseInputs, method, multipleVariation) ==
  LET baseEV == baseInputs.evByMethod[method]
  IN  IF Truthy(baseEV)
      THEN << Scenario(ScenarioName(method, "-", multipleVariation),
                       [baseInputs EXCEPT !.evByMethod[method] =
                          Mul(baseEV, Sub(Num(1), multipleVariation))]),
              Scenario(ScenarioName(method, "+", multipleVariation),
                       [baseInputs EXCEPT !.evByMethod[method] =
                          Mul(baseEV, Add(Num(1), multipleVariation))]) >>
      ELSE <<>>

\* the scenarios of one EV method whose evByMethod map holds the perturbed
\* entry only
evScenarios_ReplacesMap(baseInputs, method, multipleVariation) ==
  LET baseEV == baseInputs.evByMethod[method]
      only(v) == [m \in MethodSet |-> IF m = method THEN v ELSE Undefined]
  IN  IF Truthy(baseEV)
      THEN << Scenario(ScenarioName(method, "+", multipleVariation),
                       [baseInputs EXCEPT !.evByMethod =
                          only(Mul(baseEV, Add(Num(1), multipleVariation)))]),
              Scenario(ScenarioName(method, "-", multipleVariation),
                       [baseInputs EXCEPT !.evByMethod =
                          only(Mul(baseEV, Sub(Num(1), multipleVariation)))]) >>
      ELSE <<>>

\* body of methods.forEach: the two scenarios of one EV method, generated
\* only if (baseEV) is truthy
evScenarios(baseInputs, method, multipleVariation) ==
  LET baseEV == baseInputs.evByMethod[method]
  IN  IF Truthy(baseEV)
      THEN << Scenario(ScenarioName(method, "+", multipleVariation),
                       [baseInputs EXCEPT !.evByMethod[method] =
                          Mul(baseEV, Add(Num(1), multipleVariation))]),
              Scenario(ScenarioName(method, "-", multipleVariation),
                       [baseInputs EXCEPT !.evByMethod[method] =
                          Mul(baseEV, Sub(Num(1), multipleVariation))]) >>
      ELSE <<>>

\* the two P/E scenarios, generated only if (baseInputs.pePrice) is truthy
peScenarios(baseInputs, multipleVariation) ==
  IF Truthy(baseInputs.pePrice)
  THEN << Scenario(ScenarioName("P/E", "+", multipleVariation),
                   [baseInputs EXCEPT !.pePrice =
                      Mul(baseInputs.pePrice, Add(Num(1), multipleVariation))]),
          Scenario(ScenarioName("P/E", "-", multipleVariation),
                   [baseInputs EXCEPT !.pePrice =
                      Mul(baseInputs.pePrice, Sub(Num(1), multipleVariation))]) >>
  ELSE <<>>

generateSensitivityScenarios(baseInputs, netDebtVariation, multipleVariation) ==
  <<Scenario(BaseCaseName, baseInputs)>>
    \o netDebtScenarios(baseInputs, netDebtVariation)
    \o evScenarios(baseInputs, "EV/Sales", multipleVariation)
    \o evScenarios(baseInputs, "EV/EBITDA", multipleVariation)
    \o peScenarios(baseInputs, multipleVariation)

\* base Inputs handed to the generator
ScenarioBaseSet ==
  { [sharesOutstanding |-> Num(MaxShares), netDebtYen |-> nd,
     evByMethod |-> [m \in MethodSet |->
        IF m = "EV/Sales" THEN es ELSE IF m = "EV/EBITDA" THEN ee ELSE Undefined],
     pePrice |-> pp, weights |-> w] :
    nd \in DebtVals, es \in EVVals, ee \in EVVals, pp \in PriceVals,
    w \in {NoWeights,
           [NoWeights EXCEPT !["EV/Sales"] = Frac(3, 5), !["EV/EBITDA"] = Frac(3, 10),
                             !["P/E"] = Frac(1, 10)]} }

\* variation arguments: omitted, 15 % and 12.5 %
VariationArgs == {Undefined, Frac(3, 20), Frac(1, 8)}

\* one call generateSensitivityScenarios(baseInputs, netDebtVariation,
\* multipleVariation); the caller keeps the arguments and the returned list
Generate ==
  /\ pc = "idle"
  /\ scenarios = <<>>
  /\ \E baseInputs \in ScenarioBaseSet, nv \in VariationArgs, mv \in VariationArgs :
       /\ scenarios' = generateSensitivityScenarios(baseInputs, OrDefault(nv), OrDefault(mv))
       /\ scenArgs' = [baseInputs |-> baseInputs, netDebtVariation |-> OrDefault(nv),
                       multipleVariation |-> OrDefault(mv)]
  /\ UNCHANGED <<pc, inputs, weights, bridges, warnings, errors, summary, success,
                 DEFAULT_WEIGHTS, calls, first>>

NextScen == Generate

SpecScen == Init /\ [][NextScen]_vars

(* ------------- the sensitivity analysis of the report ------------------ *)
\* base Inputs of the analysis, some at the ends of the finite range
SensitivityBaseSet ==
  { [sharesOutstanding |-> Num(1), netDebtYen |-> nd,
     evByMethod |-> [m \in MethodSet |->
        IF m = "EV/Sales" THEN es ELSE IF m = "EV/EBITDA" THEN ee ELSE Undefined],
     pePrice |-> pp, weights |-> NoWeights] :
    nd \in {Num(-1), Num(0), Num(MaxDebt), Num(MaxFloat)},
    es \in {Undefined, NaN, PosInf, Num(0), Num(-1), Frac(1, MaxFloat), Num(MaxEV),
            Num(MaxFloat)},
    ee \in {Undefined, Num(-1), Num(MaxEV)},
    pp \in {Undefined, Num(MaxPrice), Num(MaxFloat)} }

\* variation arguments in [0, 1): omitted, 0 and 90 %
SensitivityVariationArgs == {Undefined, Num(0), Frac(9, 10)}

\* the base case: computeValuation(base), whose result the caller keeps
CallBase ==
  /\ pc = "idle"
  /\ calls = 0
  /\ \E inp \in SensitivityBaseSet :
       /\ Validate(inp)
       /\ first' = [inputs |-> inp, result |-> NoResult]
  /\ calls' = calls + 1
  /\ UNCHANGED <<scenarios, scenArgs>>

\* generateSensitivityScenarios(baseResult.inputs, ...)
GenerateForBase ==
  /\ pc = "idle"
  /\ calls = 1
  /\ scenarios = <<>>
  /\ \E nv \in SensitivityVariationArgs, mv \in SensitivityVariationArgs :
       /\ scenarios' = generateSensitivityScenarios(first.result.inputs,
                                                    OrDefault(nv), OrDefault(mv))
       /\ scenArgs' = [baseInputs |-> first.result.inputs,
                       netDebtVariation |-> OrDefault(nv),
                       multipleVariation |-> OrDefault(mv)]
  /\ UNCHANGED <<pc, inputs, weights, bridges, warnings, errors, summary, success,
                 DEFAULT_WEIGHTS, calls, first>>

\* scenarios.forEach(scenario => computeValuation(scenario.inputs)): the
\* call for the next scenario of the list
CallScenario ==
  /\ pc = "idle"
  /\ scenarios # <<>>
  /\ calls <= Len(scenarios)
  /\ Validate(scenarios[calls].inputs)
  /\ calls' = calls + 1
  /\ UNCHANGED <<first, scenarios, scenArgs>>

NextSensitivity ==
  \/ CallBase
  \/ GenerateForBase
  \/ CallScenario
  \/ AddBridgeSales
  \/ AddBridgeEbitda
  \/ AddBridgePE
  \/ Summarize
  \/ ReturnToCaller

SpecSensitivity == Init /\ [][NextSensitivity]_vars

\* the result record of a finished call
Done == pc = "done"
ValidationPassed == Done /\ validateInputs(inputs).valid

(* ------------------------------ properties ----------------------------- *)
EVMethods == {"EV/Sales", "EV/EBITDA"}
AnyUsed == \E i \in 1..Len(bridges) : bridges[i].used
\* the bridges of the result that belong to method m
RowsOf(m) == {i \in 1..Len(bridges) : bridges[i].method = m}
CountText(ws, text, m) ==
  Cardinality({i \in 1..Len(ws) : ws[i].text = text /\ ws[i].method = m})
HasText(ws, text) == \E i \in 1..Len(ws) : ws[i].text = text

\* C1: whenever validation passed, success is true if and only if at least
\* one bridge has used = true; when every method was skipped the result has
\* success = false, validMethodCount = 0, usedMethods empty and avg NaN.
C1_SuccessIffAnyBridgeUsed ==
  ValidationPassed =>
    /\ success = AnyUsed
    /\ ~AnyUsed => /\ success = FALSE
                   /\ summary.validMethodCount = 0
                   /\ summary.usedMethods = <<>>
                   /\ IsNaN(summary.avg)

\* C1 witness: validation passed with a valid EV/Sales figure, but net debt
\* is at least every supplied EV and there is no P/E price: nothing is used.
C1_Witness ==
  /\ ValidationPassed
  /\ ~AnyUsed
  /\ IsFinite(inputs.evByMethod["EV/Sales"]) /\ Gt0(inputs.evByMethod["EV/Sales"])
  /\ inputs.pePrice = Undefined
  /\ success = FALSE

\* C2: whenever validateInputs reports an error the result is the empty one:
\* success false, no bridges, every summary number NaN, validMethodCount 0,
\* usedMethods empty, errors the validator's list, warnings empty.
C2_ValidationErrorGivesEmptyResult ==
  (Done /\ Len(validateInputs(inputs).errors) > 0) =>
    /\ success = FALSE
    /\ bridges = <<>>
    /\ IsNaN(summary.avg) /\ IsNaN(summary.median) /\ IsNaN(summary.weighted)
    /\ IsNaN(summary.range[1]) /\ IsNaN(summary.range[2])
    /\ summary.validMethodCount = 0
    /\ summary.usedMethods = <<>>
    /\ errors = validateInputs(inputs).errors
    /\ Len(errors) > 0
    /\ warnings = <<>>

\* C2 witness: a finished call whose input has invalid shares although a
\* usable EV/Sales figure and P/E price were supplied.
C2_Witness ==
  /\ Done
  /\ SharesInvalid(inputs)
  /\ IsFinite(inputs.evByMethod["EV/Sales"]) /\ Gt0(inputs.evByMethod["EV/Sales"])
  /\ IsFinite(inputs.pePrice) /\ Gt0(inputs.pePrice)
  /\ Len(errors) > 0
  /\ bridges = <<>>

\* the validation rules as the specification words them
RuleShares(inp) == ~IsFinite(inp.sharesOutstanding) \/ Le0(inp.sharesOutstanding)
RuleNetDebt(inp) == ~IsFinite(inp.netDebtYen)
RuleNoMethods(inp) ==
  /\ \A m \in MethodSet : ~(IsFinite(inp.evByMethod[m]) /\ Gt0(inp.evByMethod[m]))
  /\ inp.pePrice = Undefined
RulePE(inp) ==
  inp.pePrice # Undefined /\ ~(IsFinite(inp.pePrice) /\ Gt0(inp.pePrice))
ExpectedErrors(inp) ==
  (IF RuleShares(inp) THEN <<Msg(ErrShares, inp.sharesOutstanding)>> ELSE <<>>)
  \o (IF RuleNetDebt(inp) THEN <<Msg(ErrNetDebt, inp.netDebtYen)>> ELSE <<>>)
  \o (IF RuleNoMethods(inp) THEN <<Msg(ErrNoMethods, NoArg)>> ELSE <<>>)
  \o (IF RulePE(inp) THEN <<Msg(ErrPEPrice, inp.pePrice)>> ELSE <<>>)

\* C3: the error list holds exactly one message per violated rule and none
\* for a satisfied rule, in the order shares, net debt, no-methods, P/E, and
\* the input is valid exactly when the list is empty.
C3_OneErrorPerViolatedRule ==
  Done => /\ errors = ExpectedErrors(inputs)
          /\ validateInputs(inputs).valid = (errors = <<>>)

\* C4: 'No valid valuation methods provided' is reported exactly when no EV
\* entry is finite and > 0 and no P/E price is defined; with a defined but
\* invalid P/E price, no valid EV and valid shares and net debt, the only
\* error is 'Invalid P/E price'.
C4_NoMethodsOnlyWithoutDefinedPEPrice ==
  Done =>
    /\ HasText(errors, ErrNoMethods) = RuleNoMethods(inputs)
    /\ ( /\ RulePE(inputs) /\ validEvMethods(inputs) = {}
         /\ ~RuleShares(inputs) /\ ~RuleNetDebt(inputs) )
       => errors = <<Msg(ErrPEPrice, inputs.pePrice)>>

\* a finite number > 0
Positive(x) == IsFinite(x) /\ Gt0(x)
UsableEV(inp, m) == Positive(inp.evByMethod[m])
UsablePE(inp) == Positive(inp.pePrice)
PositiveEquity(inp, m) ==
  UsableEV(inp, m) /\ Gt0(Sub(inp.evByMethod[m], inp.netDebtYen))
NonPositiveEquity(inp, m) ==
  UsableEV(inp, m) /\ Le0(Sub(inp.evByMethod[m], inp.netDebtYen))

\* C5 as stated: validation passed and some EV entry is finite and > 0, or
\* the P/E price is finite and > 0, implies success = true.
C5_UsableMethodGivesSuccess ==
  (ValidationPassed /\ ((\E m \in EVMethods : UsableEV(inputs, m)) \/ UsablePE(inputs)))
    => success = TRUE

\* C5 amended: validation passed and some EV entry is finite and > 0 with
\* EV - netDebt > 0, or the P/E price is finite and > 0, implies
\* success = true.
C5_MethodWithPositiveEquityGivesSuccess ==
  (ValidationPassed /\ ((\E m \in EVMethods : PositiveEquity(inputs, m)) \/ UsablePE(inputs)))
    => success = TRUE

\* C5 witness: no P/E price, EV/Sales has non-positive equity, EV/EBITDA has
\* positive equity, and the call succeeded.
C5_Witness ==
  /\ ValidationPassed
  /\ inputs.pePrice = Undefined
  /\ NonPositiveEquity(inputs, "EV/Sales")
  /\ PositiveEquity(inputs, "EV/EBITDA")
  /\ success = TRUE

\* C6: whenever validation passed the result has exactly three bridges, one
\* per method, in the order EV/Sales, EV/EBITDA, P/E.
C6_ThreeBridgesInFixedOrder ==
  ValidationPassed =>
    /\ Len(bridges) = 3
    /\ bridges[1].method = "EV/Sales"
    /\ bridges[2].method = "EV/EBITDA"
    /\ bridges[3].method = "P/E"
    /\ \A m \in MethodSet : Cardinality(RowsOf(m)) = 1

\* C6 witness: EV/Sales skipped, EV/EBITDA not supplied, only P/E used.
C6_Witness ==
  /\ ValidationPassed
  /\ Len(bridges) = 3
  /\ ~bridges[1].used /\ ~bridges[2].used /\ bridges[3].used
  /\ inputs.evByMethod["EV/EBITDA"] = Undefined

\* C7: an EV method with a finite EV > 0 and EV - netDebt > 0 has a used
\* bridge with EV the supplied EV, Equity = EV - netDebt and
\* PricePerShare = Equity / sharesOutstanding, for any sign of net debt; with
\* net cash the equity exceeds the EV.
C7_UsedBridgeValues ==
  \A m \in EVMethods :
    (ValidationPassed /\ PositiveEquity(inputs, m)) =>
      /\ RowsOf(m) # {}
      /\ \A i \in RowsOf(m) :
           /\ bridges[i].used = TRUE
           /\ bridges[i].EV = inputs.evByMethod[m]
           /\ bridges[i].Equity = Sub(inputs.evByMethod[m], inputs.netDebtYen)
           /\ Add(bridges[i].Equity, inputs.netDebtYen) = inputs.evByMethod[m]
           /\ bridges[i].PricePerShare =
                Div(Sub(inputs.evByMethod[m], inputs.netDebtYen), inputs.sharesOutstanding)
           /\ Mul(bridges[i].PricePerShare, inputs.sharesOutstanding) = bridges[i].Equity
           /\ inputs.netDebtYen.n < 0 => Less(bridges[i].EV, bridges[i].Equity)

\* C7 witness: net cash, more than one share, both EV bridges used.
C7_Witness ==
  /\ ValidationPassed
  /\ inputs.netDebtYen.n < 0
  /\ inputs.sharesOutstanding.n > 1
  /\ Len(bridges) = 3 /\ bridges[1].used /\ bridges[2].used
  /\ Less(bridges[2].EV, bridges[2].Equity)

\* C8: an EV method with a finite EV > 0 but EV - netDebt <= 0 has an unused
\* bridge with PricePerShare = 0, EV and Equity the supplied EV and the
\* computed equity, a skipReason starting 'Negative equity value', and
\* exactly one negative-equity warning for that method.
C8_NonPositiveEquityBridge ==
  \A m \in EVMethods :
    (ValidationPassed /\ NonPositiveEquity(inputs, m)) =>
      /\ RowsOf(m) # {}
      /\ \A i \in RowsOf(m) :
           /\ bridges[i].used = FALSE
           /\ bridges[i].PricePerShare = Num(0)
           /\ bridges[i].EV = inputs.evByMethod[m]
           /\ bridges[i].Equity = Sub(inputs.evByMethod[m], inputs.netDebtYen)
           /\ Le0(bridges[i].Equity)
           /\ bridges[i].skipReason.text = SkipNegEquity
      /\ CountText(warnings, WarnNegEquity, m) = 1

\* C8 witness: the equity of EV/Sales is exactly 0 and the bridge is unused.
C8_Witness ==
  /\ ValidationPassed
  /\ UsableEV(inputs, "EV/Sales")
  /\ inputs.evByMethod["EV/Sales"] = inputs.netDebtYen
  /\ Len(bridges) = 3 /\ ~bridges[1].used /\ bridges[1].Equity = Num(0)
  /\ CountText(warnings, WarnNegEquity, "EV/Sales") = 1

\* EV/EBITDA supplied (not undefined) but not a finite number > 0
EbitdaExplicitlyInvalid(inp) ==
  inp.evByMethod["EV/EBITDA"] # Undefined /\ ~Positive(inp.evByMethod["EV/EBITDA"])

\* C9: when EV/EBITDA is supplied but is not a finite number > 0 (zero,
\* negative, NaN or infinite) its bridge is unused with skipReason exactly
\* 'EBITDA <= 0 or invalid EV', its numeric fields are NaN, and the
\* EV/EBITDA skip warning is in warnings.
C9_InvalidEbitdaSkipped ==
  (ValidationPassed /\ EbitdaExplicitlyInvalid(inputs)) =>
    /\ RowsOf("EV/EBITDA") # {}
    /\ \A i \in RowsOf("EV/EBITDA") :
         /\ bridges[i].used = FALSE
         /\ bridges[i].skipReason.text = SkipEbitda
         /\ IsNaN(bridges[i].EV) /\ IsNaN(bridges[i].Equity)
         /\ IsNaN(bridges[i].PricePerShare)
    /\ HasText(warnings, WarnEbitdaSkip)

\* the statements of C10 about the weight table, the warnings and the
\* weighted mean of a finished call
ReweightedAsClaimed ==
  LET merged == mergeWeights(DefaultWeightTable, inputs.weights)
      wS == OrZero(Add(merged["EV/Sales"], merged["EV/EBITDA"]))
      wP == OrZero(merged["P/E"])
  IN  /\ weights["EV/Sales"] = Add(merged["EV/Sales"], merged["EV/EBITDA"])
      /\ weights["EV/EBITDA"] = Num(0)
      /\ weights["P/E"] = merged["P/E"]
      /\ \E i \in 1..(Len(warnings) - 1) :
           /\ warnings[i].text = WarnEbitdaSkip
           /\ warnings[i + 1].text = WarnReweight
      /\ (bridges[3].used /\ Gt0(Add(wS, wP))) =>
           summary.weighted =
             Div(Add(Mul(wS, bridges[1].PricePerShare),
                     Mul(wP, bridges[3].PricePerShare)),
                 Add(wS, wP))
      /\ (~bridges[3].used /\ Gt0(wS)) =>
           summary.weighted = bridges[1].PricePerShare

\* C10: when EV/EBITDA is supplied but explicitly invalid and the EV/Sales
\* bridge is used, EV/Sales carries w(EV/Sales) + w(EV/EBITDA), EV/EBITDA
\* carries 0, the reweight warning directly follows the skip warning, and the
\* weighted mean uses the increased EV/Sales weight.
C10_InvalidEbitdaWeightGoesToSales ==
  (ValidationPassed /\ EbitdaExplicitlyInvalid(inputs) /\ bridges[1].used)
    => ReweightedAsClaimed

\* C11: for validation-passing inputs with a defined P/E price the P/E bridge
\* is used with PricePerShare the supplied price, Equity = price *
\* sharesOutstanding and EV = NaN, whatever the net debt and the weights; with
\* no P/E price the P/E bridge is unused with skipReason 'No valid P/E price
\* provided' and all numeric fields NaN.
C11_PEBridgePassThrough ==
  ValidationPassed =>
    /\ RowsOf("P/E") # {}
    /\ \A i \in RowsOf("P/E") :
         IF inputs.pePrice # Undefined
         THEN /\ bridges[i].used = TRUE
              /\ bridges[i].PricePerShare = inputs.pePrice
              /\ bridges[i].Equity.n * inputs.sharesOutstanding.d * inputs.pePrice.d
                   = inputs.pePrice.n * inputs.sharesOutstanding.n * bridges[i].Equity.d
              /\ IsFinite(bridges[i].Equity)
              /\ IsNaN(bridges[i].EV)
              /\ bridges[i].skipReason = NoSkipReason
         ELSE /\ bridges[i].used = FALSE
              /\ bridges[i].skipReason = Msg(SkipNoPE, NoArg)
              /\ IsNaN(bridges[i].EV) /\ IsNaN(bridges[i].Equity)
              /\ IsNaN(bridges[i].PricePerShare)

\* C11 witness: a P/E price with more than one share and a net debt that
\* makes the equity of both EV methods non-positive; only P/E is used.
C11_Witness ==
  /\ ValidationPassed
  /\ inputs.pePrice # Undefined
  /\ inputs.sharesOutstanding.n > 1
  /\ inputs.netDebtYen.n > 0
  /\ NonPositiveEquity(inputs, "EV/Sales") /\ NonPositiveEquity(inputs, "EV/EBITDA")
  /\ Len(bridges) = 3 /\ bridges[3].used
  /\ summary.usedMethods = <<"P/E">>

\* the weight of row i of a finished valid call if its bridge is used, and
\* that weight times the price; both 0 for an unused bridge
UsedWeight(i) == IF bridges[i].used THEN weights[bridges[i].method] ELSE Num(0)
UsedWeightedPrice(i) ==
  IF bridges[i].used THEN Mul(bridges[i].PricePerShare, weights[bridges[i].method])
  ELSE Num(0)
\* sum of the weights of the used methods, in plain arithmetic
UsedWeightSum == Add(Add(UsedWeight(1), UsedWeight(2)), UsedWeight(3))
\* the default weights 0.4, 0.4, 0.2 overridden per key by inputs.weights
OverriddenDefault(m) ==
  IF inputs.weights[m] # Undefined THEN inputs.weights[m]
  ELSE IF m = "P/E" THEN Frac(2, 10) ELSE Frac(4, 10)

\* C12: when the sum of the merged (possibly reweighted) weights of the used
\* methods is > 0, summary.weighted is the sum over the used methods of
\* price * weight divided by that sum; supplied weights override the defaults
\* 0.4 / 0.4 / 0.2 per key, need not sum to 1, and the weights of unused
\* methods do not enter the normalisation.
C12_WeightedMeanOverUsedMethods ==
  ValidationPassed =>
    /\ ~HasText(warnings, WarnReweight) =>
         \A m \in MethodSet : weights[m] = OverriddenDefault(m)
    /\ (AnyUsed /\ Gt0(UsedWeightSum)) =>
         summary.weighted =
           Div(Add(Add(UsedWeightedPrice(1), UsedWeightedPrice(2)), UsedWeightedPrice(3)),
               UsedWeightSum)

\* C12 witness: weights 0.6 / 0.3 / 0.1 supplied, EV/EBITDA skipped for
\* non-positive equity, EV/Sales and P/E used at different prices: the used
\* weights sum to 0.7 and the weighted mean differs from the plain mean.
C12_Witness ==
  /\ ValidationPassed
  /\ inputs.weights["EV/Sales"] = Frac(3, 5)
  /\ inputs.weights["EV/EBITDA"] = Frac(3, 10)
  /\ NonPositiveEquity(inputs, "EV/EBITDA")
  /\ Len(bridges) = 3 /\ bridges[1].used /\ ~bridges[2].used /\ bridges[3].used
  /\ UsedWeightSum = Frac(7, 10)
  /\ summary.weighted # summary.avg

\* C13: with at least one used method and a zero sum of the weights of the
\* used methods, summary.weighted equals summary.avg and exactly one
\* zero-weight fallback warning is pushed; with no used method weighted is
\* NaN and no fallback warning is pushed.
C13_ZeroWeightFallsBackToAverage ==
  /\ (ValidationPassed /\ AnyUsed /\ UsedWeightSum = Num(0)) =>
       /\ summary.weighted = summary.avg
       /\ IsFinite(summary.weighted)
       /\ CountText(warnings, WarnZeroWeight, "") = 1
  /\ (Done /\ ~AnyUsed) =>
       /\ IsNaN(summary.weighted)
       /\ CountText(warnings, WarnZeroWeight, "") = 0

\* C13 witness: every weight explicitly 0, EV/Sales and P/E used at different
\* prices, the weighted mean is their plain mean and the last warning is the
\* fallback warning.
C13_Witness ==
  /\ ValidationPassed
  /\ \A m \in MethodSet : inputs.weights[m] = Num(0)
  /\ Len(bridges) = 3 /\ bridges[1].used /\ bridges[3].used
  /\ bridges[1].PricePerShare # bridges[3].PricePerShare
  /\ summary.weighted = summary.avg
  /\ Len(warnings) > 0 /\ warnings[Len(warnings)].text = WarnZeroWeight

\* x lies in the closed interval summary.range
InRange(x) ==
  /\ IsFinite(x) /\ IsFinite(summary.range[1]) /\ IsFinite(summary.range[2])
  /\ Leq(summary.range[1], x) /\ Leq(x, summary.range[2])
\* range is [min, max] of the used prices
RangeIsMinMax ==
  /\ \E i \in 1..Len(bridges) : bridges[i].used /\ bridges[i].PricePerShare = summary.range[1]
  /\ \E i \in 1..Len(bridges) : bridges[i].used /\ bridges[i].PricePerShare = summary.range[2]
  /\ \A i \in 1..Len(bridges) : bridges[i].used =>
       /\ Leq(summary.range[1], bridges[i].PricePerShare)
       /\ Leq(bridges[i].PricePerShare, summary.range[2])
\* every supplied weight is finite and not negative
WeightsNonNegative(inp) ==
  \A m \in MethodSet :
    inp.weights[m] = Undefined \/ (IsFinite(inp.weights[m]) /\ inp.weights[m].n >= 0)

UsedRows == {i \in 1..Len(bridges) : bridges[i].used}
MethodPosition(m) == CHOOSE i \in 1..Len(Methods) : Methods[i] = m

\* C15: in every result validMethodCount = usedMethods.length = the number
\* of used bridges, and usedMethods lists the methods of the used bridges in
\* bridge order (EV/Sales before EV/EBITDA before P/E).
C15_UsedMethodsMatchUsedBridges ==
  Done =>
    /\ summary.validMethodCount = Len(summary.usedMethods)
    /\ summary.validMethodCount = Cardinality(UsedRows)
    /\ \A i \in UsedRows :
         summary.usedMethods[Cardinality({j \in UsedRows : j <= i})] = bridges[i].method
    /\ \A a, b \in 1..Len(summary.usedMethods) :
         a < b => MethodPosition(summary.usedMethods[a]) < MethodPosition(summary.usedMethods[b])

\* C15 witness: EV/Sales and P/E used, EV/EBITDA not, and the P/E price is
\* the lower one, so an order by price would put P/E first.
C15_Witness ==
  /\ ValidationPassed
  /\ Len(bridges) = 3 /\ bridges[1].used /\ ~bridges[2].used /\ bridges[3].used
  /\ Less(bridges[3].PricePerShare, bridges[1].PricePerShare)
  /\ summary.usedMethods = <<"EV/Sales", "P/E">>
  /\ summary.validMethodCount = 2

PriceAt(i) == bridges[i].PricePerShare

\* C16: summary.median is the median of the used prices whatever their
\* method order: the price itself for one used price, the arithmetic mean for
\* two, the middle value in ascending order for three, NaN for none; with
\* exactly one used method avg, median, range[0] and range[1] all equal that
\* method's price.
C16_MedianOfUsedPrices ==
  Done =>
    /\ Cardinality(UsedRows) = 0 => IsNaN(summary.median)
    /\ Cardinality(UsedRows) = 1 =>
         \A i \in UsedRows :
           /\ summary.median = PriceAt(i) /\ summary.avg = PriceAt(i)
           /\ summary.range[1] = PriceAt(i) /\ summary.range[2] = PriceAt(i)
    /\ Cardinality(UsedRows) = 2 =>
         \A i, j \in UsedRows :
           i # j => Mul(Num(2), summary.median) = Add(PriceAt(i), PriceAt(j))
    /\ Cardinality(UsedRows) = 3 =>
         \E i, j, k \in UsedRows :
           /\ i # j /\ j # k /\ i # k
           /\ Leq(PriceAt(i), PriceAt(j)) /\ Leq(PriceAt(j), PriceAt(k))
           /\ summary.median = PriceAt(j)

\* C16 witness: three used methods whose middle price is the first bridge's
\* (EV/EBITDA lowest, P/E highest), so the median is not the middle bridge.
C16_Witness ==
  /\ Done /\ Cardinality(UsedRows) = 3
  /\ Less(PriceAt(2), PriceAt(1)) /\ Less(PriceAt(1), PriceAt(3))
  /\ summary.median = PriceAt(1)

\* the call in progress repeats the Inputs of the caller's first call
RepeatedCall == calls >= 3 /\ calls % 2 = 1

\* C17: computeValuation has no hidden state: after earlier calls, among
\* them calls that trigger the EV/EBITDA reweighting, a call with the Inputs
\* of the first call returns the bridges, summary, warnings, errors and
\* success of the first call; no call modifies its Inputs record or the
\* module-level default weight table.
C17_NoHiddenState ==
  /\ DEFAULT_WEIGHTS = DefaultWeightTable
  /\ (calls = 1 /\ pc # "idle") => inputs = first.inputs
  /\ (RepeatedCall /\ pc # "idle") => inputs = first.inputs
  /\ (RepeatedCall /\ Done) =>
       ValuationResult(bridges, summary, inputs, warnings, errors, success) = first.result

\* C17 witness: the first call's Inputs supply no weights and use EV/Sales
\* and EV/EBITDA at different prices; after a reweighting call in between the
\* repeated call returns the first result, its weighted mean still built
\* from the default weights.
C17_Witness ==
  /\ RepeatedCall /\ Done
  /\ first.result.success = TRUE
  /\ first.inputs.weights = NoWeights
  /\ Len(bridges) = 3 /\ bridges[1].used /\ bridges[2].used
  /\ bridges[1].PricePerShare # bridges[2].PricePerShare
  /\ weights = DefaultWeightTable
  /\ summary = first.result.summary

(* ------------------- generateSensitivityScenarios claims --------------- *)
Generated == scenarios # <<>>
EVScenarioMethods == {"EV/Sales", "EV/EBITDA"}
\* 1 + v for a + scenario, 1 - v for a - scenario
Factor(sign, v) == IF sign = "+" THEN Add(Num(1), v) ELSE Sub(Num(1), v)

\* C18: generateSensitivityScenarios returns exactly
\* 1 + 2 + 2 * (number of EV methods among EV/Sales, EV/EBITDA whose base EV
\* is defined) + (2 if pePrice is defined) scenarios, where defined means
\* present with any value, 0, negative and NaN included.
C18_ScenarioCountLaw ==
  Generated =>
    Len(scenarios) =
      1 + 2
        + 2 * Cardinality({m \in EVScenarioMethods :
                             scenArgs.baseInputs.evByMethod[m] # Undefined})
        + (IF scenArgs.baseInputs.pePrice # Undefined THEN 2 ELSE 0)

\* position of a scenario kind in the order of generation
KindRank(kind) ==
  CASE kind = "Base Case" -> 0
    [] kind = "Net debt" -> 1
    [] kind = "EV/Sales" -> 2
    [] kind = "EV/EBITDA" -> 3
    [] kind = "P/E" -> 4

\* C19: the list is ordered: first the scenario named 'Base Case' with the
\* unmodified base Inputs, then net debt + and net debt -, then for EV/Sales
\* and then EV/EBITDA (each only if generated) the + scenario followed by
\* the - scenario, then P/E + and P/E - last.
C19_ScenarioOrder ==
  Generated =>
    /\ Len(scenarios) >= 3 /\ Len(scenarios) % 2 = 1
    /\ scenarios[1] = Scenario(BaseCaseName, scenArgs.baseInputs)
    /\ scenarios[2].scenario = ScenarioName("Net debt", "+", scenArgs.netDebtVariation)
    /\ scenarios[3].scenario = ScenarioName("Net debt", "-", scenArgs.netDebtVariation)
    /\ \A i \in 4..Len(scenarios) :
         /\ scenarios[i].scenario.kind \in EVScenarioMethods \cup {"P/E"}
         /\ scenarios[i].scenario =
              ScenarioName(scenarios[i].scenario.kind,
                           IF i % 2 = 0 THEN "+" ELSE "-", scenArgs.multipleVariation)
         /\ i % 2 = 0 => scenarios[i + 1].scenario.kind = scenarios[i].scenario.kind
         /\ (i % 2 = 1 /\ i < Len(scenarios)) =>
              KindRank(scenarios[i].scenario.kind) < KindRank(scenarios[i + 1].scenario.kind)

\* C19 witness: all nine scenarios are generated, with a 12.5 % multiple
\* variation that the names show rounded to 13.
C19_Witness ==
  /\ Len(scenarios) = 9
  /\ <<scenarios[4].scenario.kind, scenarios[6].scenario.kind,
       scenarios[8].scenario.kind>> = <<"EV/Sales", "EV/EBITDA", "P/E">>
  /\ scenarios[4].scenario.percent.digits = 13
  /\ scenarios[4].scenario.sign = "+" /\ scenarios[5].scenario.sign = "-"

\* the field a scenario of the given kind perturbs, in the given Inputs
Perturbed(inp, kind) ==
  CASE kind = "Net debt" -> inp.netDebtYen
    [] kind = "P/E" -> inp.pePrice
    [] OTHER -> inp.evByMethod[kind]

\* C20: every non-base scenario's Inputs equals the base Inputs except for
\* the single perturbed field: netDebtYen = base * (1 +/- netDebtVariation)
\* for a net debt scenario, the method's evByMethod entry = base * (1 +/-
\* multipleVariation) for an EV scenario (the other entries intact), pePrice
\* for a P/E scenario; the base Inputs are left unmodified.
C20_OnlyPerturbedFieldChanges ==
  Generated =>
    LET base == scenArgs.baseInputs
    IN  /\ scenarios[1].inputs = base
        /\ \A i \in 2..Len(scenarios) :
             LET s == scenarios[i]
                 kind == s.scenario.kind
                 v == IF kind = "Net debt" THEN scenArgs.netDebtVariation
                      ELSE scenArgs.multipleVariation
             IN  /\ Perturbed(s.inputs, kind) =
                      Mul(Perturbed(base, kind), Factor(s.scenario.sign, v))
                 /\ s.inputs.sharesOutstanding = base.sharesOutstanding
                 /\ s.inputs.weights = base.weights
                 /\ kind # "Net debt" => s.inputs.netDebtYen = base.netDebtYen
                 /\ kind # "P/E" => s.inputs.pePrice = base.pePrice
                 /\ \A m \in MethodSet :
                      m # kind => s.inputs.evByMethod[m] = base.evByMethod[m]

\* C20 witness: an EV/Sales scenario changes the EV/Sales entry while the
\* defined EV/EBITDA entry, net debt and P/E price of the base stay.
C20_Witness ==
  /\ Len(scenarios) = 9
  /\ scenArgs.baseInputs.evByMethod["EV/EBITDA"] = Num(MaxEV)
  /\ scenArgs.baseInputs.netDebtYen = Num(MaxDebt)
  /\ scenarios[4].scenario.kind = "EV/Sales"
  /\ scenarios[4].inputs.evByMethod["EV/Sales"] # scenArgs.baseInputs.evByMethod["EV/Sales"]
  /\ scenarios[4].inputs.evByMethod["EV/EBITDA"] = Num(MaxEV)
  /\ scenarios[4].inputs.netDebtYen = Num(MaxDebt)
  /\ scenarios[2].inputs.netDebtYen # Num(MaxDebt)

(* --------------------- EV/EBITDA skip and reweighting ------------------ *)
\* the weight table as merged at the start of the call
MergedWeights == mergeWeights(DefaultWeightTable, inputs.weights)
\* the warnings pushed on account of EV/EBITDA
EbitdaWarnings ==
  SelectSeq(warnings, LAMBDA w : w.text \in {WarnEbitdaSkip, WarnReweight}
                                 \/ w.method = "EV/EBITDA")

\* C21: when EV/EBITDA is supplied but explicitly invalid and the EV/Sales
\* bridge is not used, no weight is changed, no reweight warning is emitted,
\* the only warning on account of EV/EBITDA is its skip warning, and the
\* weighted mean is normalised over the used methods with the original
\* weights.
C21_InvalidEbitdaWithoutSalesChangesNoWeight ==
  (ValidationPassed /\ EbitdaExplicitlyInvalid(inputs) /\ ~bridges[1].used) =>
    /\ weights = MergedWeights
    /\ ~HasText(warnings, WarnReweight)
    /\ EbitdaWarnings = <<PlainWarning(WarnEbitdaSkip)>>
    /\ summary.weighted = weightedOf(validBridges(bridges), MergedWeights).value

\* the finished call had no EV/EBITDA entry
EbitdaAbsent == ValidationPassed /\ inputs.evByMethod["EV/EBITDA"] = Undefined
\* C22, the absent case itself: the EV/EBITDA bridge is unused, nothing is
\* warned on account of EV/EBITDA and the weight table is the merged one
AbsentEbitdaIsSilent ==
  EbitdaAbsent =>
    /\ bridges[2].method = "EV/EBITDA" /\ ~bridges[2].used
    /\ EbitdaWarnings = <<>>
    /\ weights = MergedWeights
\* the finished second call of the comparing caller, on Inputs that passed
\* validation
SuppliedCallDone == calls = 2 /\ ValidationPassed

ZeroTotalWeight ==
  AnyUsed /\ ~Gt0(totalWeight(validBridges(bridges), weights))

\* the reason the claim allows for a warning
WarningHasCause(w) ==
  \/ /\ w.text = WarnNegEquity
     /\ w.method \in EVMethods /\ NonPositiveEquity(inputs, w.method)
  \/ /\ w.text \in {WarnEbitdaSkip, WarnReweight}
     /\ EbitdaExplicitlyInvalid(inputs)
  \/ /\ w.text = WarnZeroWeight
     /\ ZeroTotalWeight

WarningRank(w) ==
  CASE w.text = WarnNegEquity /\ w.method = "EV/Sales" -> 1
    [] w.text = WarnNegEquity /\ w.method = "EV/EBITDA" -> 2
    [] w.text = WarnEbitdaSkip -> 2
    [] w.text = WarnReweight -> 3
    [] w.text = WarnZeroWeight -> 4
    [] OTHER -> 0
\* the log in pipeline order, the reweight warning directly after the skip
\* warning
WarningsInPipelineOrder ==
  /\ \A i \in 1..Len(warnings) : WarningRank(warnings[i]) > 0
  /\ \A i \in 1..(Len(warnings) - 1) :
       WarningRank(warnings[i]) < WarningRank(warnings[i + 1])
  /\ \A i \in 1..Len(warnings) :
       warnings[i].text = WarnReweight =>
         i > 1 /\ warnings[i - 1].text = WarnEbitdaSkip
\* a step inside a call keeps the log it found as a prefix of the new log
WarningsAppendOnly ==
  pc # "done" =>
    /\ Len(warnings') >= Len(warnings)
    /\ SubSeq(warnings', 1, Len(warnings)) = warnings

\* C24: warnings is an append-only log in pipeline order: an EV/Sales
\* negative-equity warning first, then the EV/EBITDA warnings (its
\* negative-equity warning, or its skip warning with the reweight warning
\* directly behind it), the zero-total-weight fallback warning last; no
\* step of a call removes or reorders a warning.
C24_WarningsAppendOnlyInOrder ==
  /\ [](WarningsInPipelineOrder)
  /\ [][WarningsAppendOnly]_vars

\* C24 witness: the finished call logged the EV/Sales negative-equity
\* warning, the EV/EBITDA skip warning and the fallback warning, in this
\* order.
C24_Witness ==
  /\ Done /\ Len(warnings) = 3
  /\ warnings[1].text = WarnNegEquity /\ warnings[1].method = "EV/Sales"
  /\ warnings[2] = PlainWarning(WarnEbitdaSkip)
  /\ warnings[3] = PlainWarning(WarnZeroWeight)

(* ---------------------------- bridge records --------------------------- *)
\* C25: in every result a bridge with used = true has a finite
\* PricePerShare > 0 and no skipReason, a bridge with used = false has a
\* skipReason and a PricePerShare that is NaN or 0; so summary.range[0] > 0
\* whenever success is true.
C25_UsedBridgesHaveFinitePositivePrice ==
  Done =>
    /\ \A i \in 1..Len(bridges) :
         IF bridges[i].used
         THEN /\ Positive(bridges[i].PricePerShare)
              /\ bridges[i].skipReason = NoSkipReason
         ELSE /\ bridges[i].skipReason # NoSkipReason
              /\ bridges[i].skipReason.text # ""
              /\ IsNaN(bridges[i].PricePerShare) \/ bridges[i].PricePerShare = Num(0)
    /\ success = TRUE => Gt0(summary.range[1])

(* ------------------- scenarios fed to computeValuation ----------------- *)
\* the call for a scenario of the sensitivity analysis has finished
ScenarioRun == Generated /\ Done /\ calls >= 2
CurrentScenario == scenarios[calls - 1]
\* the base Inputs passed validation
BasePassed == first.result.errors = <<>>
\* the validation-related statements of C26 about the finished call
ScenarioPasses ==
  /\ errors = <<>>
  /\ Len(bridges) = 3
  /\ calls = 2 =>
       ValuationResult(bridges, summary, inputs, warnings, errors, success) = first.result
\* the perturbed value of scenario s is base * (1 +/- v) exactly: the
\* multiplication neither overflowed nor underflowed
NoRounding(s) ==
  LET kind == s.scenario.kind
      b == Perturbed(scenArgs.baseInputs, kind)
      f == Factor(s.scenario.sign,
                  IF kind = "Net debt" THEN scenArgs.netDebtVariation
                  ELSE scenArgs.multipleVariation)
  IN  IsFinite(b) => Perturbed(s.inputs, kind) = Frac(b.n * f.n, b.d * f.d)

\* C26: for every base Inputs that passes validation and variation
\* fractions in [0, 1), each generated scenario passes validation when fed
\* to computeValuation (errors empty, three bridges), and the 'Base Case'
\* scenario yields the result of computeValuation(base).
C26_ScenariosPassValidation ==
  (ScenarioRun /\ BasePassed) => ScenarioPasses

\* C26 amended: the same for each scenario whose perturbed value
\* base * (1 +/- variation) is computed without overflow or underflow.
C26_ScenariosInRangePassValidation ==
  (ScenarioRun /\ BasePassed /\ (calls = 2 \/ NoRounding(CurrentScenario)))
    => ScenarioPasses

\* C26 witness: a net debt scenario of a successful base passes validation
\* but uses no method, so its success flag differs from the base.
C26_Witness ==
  /\ ScenarioRun /\ BasePassed /\ calls > 2
  /\ CurrentScenario.scenario.kind = "Net debt"
  /\ NoRounding(CurrentScenario)
  /\ inputs = CurrentScenario.inputs /\ inputs # first.inputs
  /\ errors = <<>> /\ Len(bridges) = 3
  /\ first.result.success = TRUE /\ success = FALSE

(* ----------------- reweighting and non-positive equity ----------------- *)
\* C27: weight moves to EV/Sales only when the supplied EV/EBITDA value is
\* itself not > 0: when EV/EBITDA has a valid positive EV but is skipped for
\* non-positive equity, the EV/Sales weight is not increased, no reweight
\* warning is emitted and the weighted mean uses the original weights
\* renormalised over the used methods.
C27_NoReweightForNonPositiveEquity ==
  ValidationPassed =>
    /\ (weights # MergedWeights \/ HasText(warnings, WarnReweight)) =>
         /\ inputs.evByMethod["EV/EBITDA"] # Undefined
         /\ ~Gt0(inputs.evByMethod["EV/EBITDA"])
    /\ NonPositiveEquity(inputs, "EV/EBITDA") =>
         /\ ~bridges[2].used /\ bridges[2].skipReason.text = SkipNegEquity
         /\ weights = MergedWeights
         /\ ~HasText(warnings, WarnReweight)
         /\ summary.weighted = weightedOf(validBridges(bridges), MergedWeights).value

\* C27 witness: EV/EBITDA has a positive EV not above the net debt, EV/Sales
\* and P/E are used at different prices with the default weights, and the
\* weighted mean is (0.4 * EV/Sales + 0.2 * P/E) / 0.6.
C27_Witness ==
  /\ ValidationPassed
  /\ NonPositiveEquity(inputs, "EV/EBITDA")
  /\ inputs.weights = NoWeights
  /\ bridges[1].used /\ bridges[3].used
  /\ bridges[1].PricePerShare # bridges[3].PricePerShare
  /\ CountText(warnings, WarnNegEquity, "EV/EBITDA") = 1
  /\ summary.weighted =
       Div(Add(Mul(Frac(2, 5), bridges[1].PricePerShare),
               Mul(Frac(1, 5), bridges[3].PricePerShare)),
           Frac(3, 5))

====
